---- MODULE Spec2Model ----
(***************************************************************************)
(* puml2csv: parse a PlantUML entity diagram (parse_puml) and generate one *)
(* CSV per entity plus one join CSV per many-to-many edge (generate_csvs). *)
(*                                                                         *)
(* Strings are TLA+ strings; the string operations of the script (strip,   *)
(* lower, startswith, endswith, in, split, the entity regex) are computed  *)
(* character by character.  A random draw is a nondeterministic choice    *)
(* over the whole range the call can return.                               *)
(***************************************************************************)
EXTENDS Integers, Sequences, FiniteSets, TLC

(***************************************************************************)
(* Bounds of the model.                                                    *)
(***************************************************************************)
MaxRows == 2
MaxLines == 4

(***************************************************************************)
(* String helpers.                                                         *)
(***************************************************************************)
Ch(s, i) == SubSeq(s, i, i)

UPPERCASE == "ABCDEFGHIJKLMNOPQRSTUVWXYZ"
LOWERCASE == "abcdefghijklmnopqrstuvwxyz"
DIGITS == "0123456789"
WORDCHARS == UPPERCASE \o LOWERCASE \o DIGITS \o "_"
WHITESPACE == " \t\n\r"

IsIn(c, chars) == \E i \in 1..Len(chars) : Ch(chars, i) = c

IsSpace(c) == c = " " \/ c = "\t" \/ c = "\n" \/ c = "\r"

\* str.lower() of one character
LowerChar(c) ==
    CASE c = "A" -> "a" [] c = "B" -> "b" [] c = "C" -> "c"
      [] c = "D" -> "d" [] c = "E" -> "e" [] c = "F" -> "f"
      [] c = "G" -> "g" [] c = "H" -> "h" [] c = "I" -> "i"
      [] c = "J" -> "j" [] c = "K" -> "k" [] c = "L" -> "l"
      [] c = "M" -> "m" [] c = "N" -> "n" [] c = "O" -> "o"
      [] c = "P" -> "p" [] c = "Q" -> "q" [] c = "R" -> "r"
      [] c = "S" -> "s" [] c = "T" -> "t" [] c = "U" -> "u"
      [] c = "V" -> "v" [] c = "W" -> "w" [] c = "X" -> "x"
      [] c = "Y" -> "y" [] c = "Z" -> "z"
      [] OTHER -> c

RECURSIVE LowerFrom(_, _)
LowerFrom(s, i) ==
    IF i > Len(s) THEN "" ELSE LowerChar(Ch(s, i)) \o LowerFrom(s, i + 1)

\* str.lower()
Lower(s) == LowerFrom(s, 1)

\* str.startswith(pre)
StartsWith(s, pre) == Len(pre) <= Len(s) /\ SubSeq(s, 1, Len(pre)) = pre

\* str.endswith(suf)
EndsWith(s, suf) ==
    Len(suf) <= Len(s) /\ SubSeq(s, Len(s) - Len(suf) + 1, Len(s)) = suf

\* sub in s
Contains(s, sub) ==
    \E i \in 1..(Len(s) - Len(sub) + 1) : SubSeq(s, i, i + Len(sub) - 1) = sub

\* number of whitespace characters at the start of s from position i on
RECURSIVE LeadingSpace(_, _)
LeadingSpace(s, i) ==
    IF i <= Len(s) /\ IsSpace(Ch(s, i)) THEN 1 + LeadingSpace(s, i + 1) ELSE 0

\* number of whitespace characters at the end of s up to position i
RECURSIVE TrailingSpace(_, _)
TrailingSpace(s, i) ==
    IF i >= 1 /\ IsSpace(Ch(s, i)) THEN 1 + TrailingSpace(s, i - 1) ELSE 0

\* str.strip()
Strip(s) ==
    LET a == LeadingSpace(s, 1)
    IN  IF a = Len(s) THEN ""
        ELSE SubSeq(s, a + 1, Len(s) - TrailingSpace(s, Len(s)))

\* s.split(':', 1)[0]
BeforeColon(s) ==
    IF Contains(s, ":")
    THEN LET k == CHOOSE i \in 1..Len(s) :
                      /\ Ch(s, i) = ":"
                      /\ \A j \in 1..(i - 1) : Ch(s, j) # ":"
         IN  SubSeq(s, 1, k - 1)
    ELSE s

\* length of the run of characters from position i on that satisfy the class
RECURSIVE RunLen(_, _, _)
RunLen(s, i, chars) ==
    IF i <= Len(s) /\ IsIn(Ch(s, i), chars)
    THEN 1 + RunLen(s, i + 1, chars)
    ELSE 0

\* re.match(r'^entity\s+([A-Za-z0-9_]+)', line): group(1), or "" for no match
EntityMatch(line) ==
    IF ~StartsWith(line, "entity") THEN ""
    ELSE LET ws == RunLen(line, 7, WHITESPACE)
             w  == RunLen(line, 7 + ws, WORDCHARS)
         IN  IF ws >= 1 /\ w >= 1 THEN SubSeq(line, 7 + ws, 6 + ws + w) ELSE ""

\* re.split of s on the runs of characters of seps
RECURSIVE SplitRuns(_, _, _, _)
SplitRuns(s, i, tok, seps) ==
    IF i > Len(s) THEN <<tok>>
    ELSE IF IsIn(Ch(s, i), seps)
         THEN <<tok>> \o SplitRuns(s, i + RunLen(s, i, seps), "", seps)
         ELSE SplitRuns(s, i + 1, tok \o Ch(s, i), seps)

\* re.split(r'\s+', s)
SplitWs(s) == SplitRuns(s, 1, "", WHITESPACE)

\* str(n) for n >= 0
RECURSIVE Str(_)
Str(n) == IF n < 10 THEN Ch(DIGITS, n + 1)
          ELSE Str(n \div 10) \o Ch(DIGITS, (n % 10) + 1)

(***************************************************************************)
(* State.                                                                  *)
(***************************************************************************)
VARIABLES
    pc,         \* where the run is
    file,       \* lines of the diagram file not yet read
    rows,       \* the row count given on the command line
    current,    \* parse_puml: name of the open entity block, "" for None
    entities,   \* ordered dict: sequence of [name, cols]
    relations,  \* list of [left, connector, right]
    out_dir,    \* TRUE once the output directory exists
    assoc,      \* set of association entities
    ri,         \* index in relations of the edge a loop is at
    pk_values,  \* primary-key sequence of each entity, in the order of entities
    persons,    \* keys of the persons registry
    ei,         \* index in entities of the entity being written
    idx,        \* index of the row being built
    ci,         \* index in cols of the column being filled
    row,        \* the row being built
    s,          \* Advisorship: the student drawn
    attempts,   \* Advisorship: resamples done
    files,      \* the output directory: file name -> [header, nrows, pairs]
    pairs,      \* the pairs of the join table being built
    fault       \* the exception that ended the run, "" for none

parseVars == <<file, current>>
diagVars == <<entities, relations>>
rowVars == <<ei, idx, ci, row, s, attempts>>
genVars == <<out_dir, assoc, ri, pk_values, persons, files, pairs, fault>>

vars == <<pc, rows, parseVars, diagVars, rowVars, genVars>>

(***************************************************************************)
(* Ordered dict of entities.                                               *)
(***************************************************************************)
HasEntity(ents, n) == \E i \in 1..Len(ents) : ents[i].name = n

EntIndex(ents, n) == CHOOSE i \in 1..Len(ents) : ents[i].name = n

ColsOf(ents, n) == ents[EntIndex(ents, n)].cols

\* entities[n] = cols : a new key goes last, an existing key keeps its place
SetCols(ents, n, cols) ==
    IF HasEntity(ents, n)
    THEN [ents EXCEPT ![EntIndex(ents, n)].cols = cols]
    ELSE Append(ents, [name |-> n, cols |-> cols])

SeqContains(seq, x) == \E i \in 1..Len(seq) : seq[i] = x

(***************************************************************************)
(* parse_puml                                                              *)
(***************************************************************************)
line == Strip(Head(file))

Reading == pc = "parse" /\ file # <<>>

\* the branch of the loop body that takes the stripped line l
LineKind(l) ==
    IF l = "" \/ StartsWith(l, "'") THEN "skipped"
    ELSE IF EntityMatch(l) # "" THEN "entity"
    ELSE IF current # "" /\ StartsWith(l, "}") THEN "end"
    ELSE IF current # "" /\ Contains(l, ":") THEN "attribute"
    ELSE IF Contains(l, "--") /\ Len(SplitWs(l)) >= 3 THEN "relation"
    ELSE "ignored"

\* blank line or comment line
LineSkipped ==
    /\ Reading /\ LineKind(line) = "skipped"
    /\ file' = Tail(file)
    /\ UNCHANGED <<pc, rows, current, diagVars, rowVars, genVars>>

\* entity start
LineEntityStart ==
    /\ Reading /\ LineKind(line) = "entity"
    /\ current' = EntityMatch(line)
    /\ entities' = SetCols(entities, EntityMatch(line), <<>>)
    /\ file' = Tail(file)
    /\ UNCHANGED <<pc, rows, relations, rowVars, genVars>>

\* end of the entity block
LineEntityEnd ==
    /\ Reading /\ LineKind(line) = "end"
    /\ current' = ""
    /\ file' = Tail(file)
    /\ UNCHANGED <<pc, rows, diagVars, rowVars, genVars>>

\* attribute
LineAttribute ==
    /\ Reading /\ LineKind(line) = "attribute"
    /\ LET col == Strip(BeforeColon(line))
       IN  entities' = IF col # "" /\ col # "--"
                       THEN SetCols(entities, current,
                                    Append(ColsOf(entities, current), col))
                       ELSE entities
    /\ file' = Tail(file)
    /\ UNCHANGED <<pc, rows, current, relations, rowVars, genVars>>

\* relation
LineRelation ==
    /\ Reading /\ LineKind(line) = "relation"
    /\ LET parts == SplitWs(line)
       IN  relations' = Append(relations,
               [left |-> parts[1], connector |-> parts[2], right |-> parts[3]])
    /\ file' = Tail(file)
    /\ UNCHANGED <<pc, rows, current, entities, rowVars, genVars>>

\* a line no branch takes, or a '--' line of fewer than three tokens
LineIgnored ==
    /\ Reading /\ LineKind(line) = "ignored"
    /\ file' = Tail(file)
    /\ UNCHANGED <<pc, rows, current, diagVars, rowVars, genVars>>

\* return entities, relations
ParseReturn ==
    /\ pc = "parse" /\ file = <<>>
    /\ pc' = "generate"
    /\ UNCHANGED <<rows, parseVars, diagVars, rowVars, genVars>>

NextParse ==
    \/ LineSkipped
    \/ LineEntityStart
    \/ LineEntityEnd
    \/ LineAttribute
    \/ LineRelation
    \/ LineIgnored
    \/ ParseReturn

(***************************************************************************)
(* generate_csvs: output directory, association entities, FK columns       *)
(***************************************************************************)
\* degree[n]: once per endpoint occurrence
Degree(rels, n) ==
    Cardinality({i \in 1..Len(rels) : rels[i].left = n})
      + Cardinality({i \in 1..Len(rels) : rels[i].right = n})

detect_assoc_entities(ents, rels) ==
    { ents[i].name : i \in { j \in 1..Len(ents) :
                               /\ Len(ents[j].cols) > 0
                               /\ Degree(rels, ents[j].name) >= 2 } }

is_mn(conn) == Contains(conn, "}") /\ Contains(conn, "{")

\* os.makedirs(out_dir); assoc = detect_assoc_entities(entities, relations)
GenerateStart ==
    /\ pc = "generate"
    /\ out_dir' = TRUE
    /\ assoc' = detect_assoc_entities(entities, relations)
    /\ ri' = 1
    /\ pc' = "augment"
    /\ UNCHANGED <<rows, parseVars, diagVars, rowVars,
                   pk_values, persons, files, pairs, fault>>

Augmenting == pc = "augment" /\ ri <= Len(relations)

edge == relations[ri]

EdgeSkippedMN(r) == is_mn(r.connector)

\* variant: only the left endpoint is looked up in assoc
EdgeSkippedAssocLeftOnly(r) ==
    ~EdgeSkippedMN(r) /\ r.left \in assoc

EdgeSkippedAssoc(r) ==
    ~EdgeSkippedMN(r) /\ (r.left \in assoc \/ r.right \in assoc)

EdgeChildLeft(r) ==
    ~EdgeSkippedMN(r) /\ ~EdgeSkippedAssoc(r) /\ Contains(r.connector, "|o--o{")

EdgeParentLeft(r) ==
    /\ ~EdgeSkippedMN(r) /\ ~EdgeSkippedAssoc(r) /\ ~EdgeChildLeft(r)
    /\ Contains(r.connector, "||--o{")

EdgeFallbackDocument(r) ==
    /\ ~EdgeSkippedMN(r) /\ ~EdgeSkippedAssoc(r)
    /\ ~EdgeChildLeft(r) /\ ~EdgeParentLeft(r)
    /\ r.left = "Document" /\ r.right \in {"Journal", "Event"}

EdgeDefault(r) ==
    /\ ~EdgeSkippedMN(r) /\ ~EdgeSkippedAssoc(r)
    /\ ~EdgeChildLeft(r) /\ ~EdgeParentLeft(r) /\ ~EdgeFallbackDocument(r)

\* variant: an undeclared target is created, as entities.setdefault would
AppendFKSetDefault(target, fk_col) ==
    /\ entities' = IF HasEntity(entities, target)
                       /\ SeqContains(ColsOf(entities, target), fk_col)
                    THEN entities
                    ELSE SetCols(entities, target,
                                 IF HasEntity(entities, target)
                                 THEN Append(ColsOf(entities, target), fk_col)
                                 ELSE <<fk_col>>)
    /\ ri' = ri + 1
    /\ UNCHANGED <<pc, fault>>

\* if fk_col not in entities[target]: entities[target].append(fk_col)
\* entities[target] raises KeyError for a name that is no key
AppendFK(target, fk_col) ==
    IF HasEntity(entities, target)
    THEN /\ entities' = IF SeqContains(ColsOf(entities, target), fk_col)
                        THEN entities
                        ELSE SetCols(entities, target,
                                     Append(ColsOf(entities, target), fk_col))
         /\ ri' = ri + 1
         /\ UNCHANGED <<pc, fault>>
    ELSE /\ pc' = "fault"
         /\ fault' = "KeyError"
         /\ UNCHANGED <<entities, ri>>

augFrame == <<rows, parseVars, relations, rowVars,
              out_dir, assoc, pk_values, persons, files, pairs>>

\* if is_mn(conn): continue
AugSkipMN ==
    /\ Augmenting /\ EdgeSkippedMN(edge)
    /\ ri' = ri + 1
    /\ UNCHANGED <<pc, fault, entities, augFrame>>

\* if left in assoc or right in assoc: continue
AugSkipAssoc ==
    /\ Augmenting /\ EdgeSkippedAssoc(edge)
    /\ ri' = ri + 1
    /\ UNCHANGED <<pc, fault, entities, augFrame>>

\* '|o--o{': left is child, FK in left
AugChildLeft ==
    /\ Augmenting /\ EdgeChildLeft(edge)
    /\ AppendFK(edge.left, Lower(edge.right) \o "_id")
    /\ UNCHANGED augFrame

\* variant: '||--o{' handled like '|o--o{', FK in left
AugParentLeftAsChild ==
    /\ Augmenting /\ EdgeParentLeft(edge)
    /\ AppendFK(edge.left, Lower(edge.right) \o "_id")
    /\ UNCHANGED augFrame

\* '||--o{': left is parent, FK in right
AugParentLeft ==
    /\ Augmenting /\ EdgeParentLeft(edge)
    /\ AppendFK(edge.right, Lower(edge.left) \o "_id")
    /\ UNCHANGED augFrame

\* fallback: Document -> Journal/Event puts the FK in Document
AugFallbackDocument ==
    /\ Augmenting /\ EdgeFallbackDocument(edge)
    /\ AppendFK(edge.left, Lower(edge.right) \o "_id")
    /\ UNCHANGED augFrame

\* default: FK in right
AugDefault ==
    /\ Augmenting /\ EdgeDefault(edge)
    /\ AppendFK(edge.right, Lower(edge.left) \o "_id")
    /\ UNCHANGED augFrame

(***************************************************************************)
(* generate_csvs: primary-key sequences and the persons registry           *)
(***************************************************************************)
LoweredCols(cols) == [i \in 1..Len(cols) |-> Lower(cols[i])]

\* list.index(x) for x in the list
IndexOf(seq, x) ==
    CHOOSE i \in 1..Len(seq) : seq[i] = x /\ \A j \in 1..(i - 1) : seq[j] # x

\* ent_id_col, "" for None
EntIdCol(ent, cols) ==
    LET lowered == LoweredCols(cols)
        candidate == Lower(ent) \o "_id"
    IN  IF SeqContains(lowered, candidate)
        THEN cols[IndexOf(lowered, candidate)]
        ELSE IF \E i \in 1..Len(cols) : EndsWith(lowered[i], "_id")
             THEN cols[CHOOSE i \in 1..Len(cols) :
                         /\ EndsWith(lowered[i], "_id")
                         /\ \A j \in 1..(i - 1) : ~EndsWith(lowered[j], "_id")]
             ELSE ""

\* [i+1 for i in range(rows)]
PkSequence(n) == [i \in 1..n |-> i]

PkValuesOf(ent, cols, n) ==
    IF EntIdCol(ent, cols) # "" THEN PkSequence(n) ELSE <<>>

\* pk_values.get(ent), <<>> for None as for the empty list
PkGet(ent) ==
    IF HasEntity(entities, ent) /\ pk_values # <<>>
    THEN pk_values[EntIndex(entities, ent)]
    ELSE <<>>

Range(seq) == { seq[i] : i \in 1..Len(seq) }

\* the registry is keyed by str(pid); the names of an entry are draws from
\* FIRSTNAMES and LASTNAMES that the model leaves to the cell that reads them
PersonsKeys(ents, pkv) ==
    IF HasEntity(ents, "Person")
    THEN { Str(pid) : pid \in Range(pkv[EntIndex(ents, "Person")]) }
    ELSE {}

\* lines 148-189, after the last edge
PreGenerate ==
    /\ pc = "augment" /\ ri > Len(relations)
    /\ pk_values' = [i \in 1..Len(entities) |->
                        PkValuesOf(entities[i].name, entities[i].cols, rows)]
    /\ persons' = PersonsKeys(entities, pk_values')
    /\ ei' = 1
    /\ pc' = "entity"
    /\ UNCHANGED <<rows, parseVars, diagVars, idx, ci, row, s, attempts,
                   out_dir, assoc, ri, files, pairs, fault>>

NextAugment ==
    \/ GenerateStart
    \/ AugSkipMN
    \/ AugSkipAssoc
    \/ AugChildLeft
    \/ AugParentLeft
    \/ AugFallbackDocument
    \/ AugDefault
    \/ PreGenerate

(***************************************************************************)
(* Semantic pools and helpers                                              *)
(***************************************************************************)
DOC_TITLES ==
    { "AI in Education", "Knowledge Graphs", "Quantum Research",
      "Cloud Computing", "Open Science", "Machine Learning for Healthcare",
      "Semantic Web Technologies", "Data Science for Policy" }
FIRSTNAMES ==
    { "Ana", "Marko", "Jelena", "Petar", "Ivana", "Nikola", "Maja", "Milos",
      "Luka", "Sara" }
LASTNAMES ==
    { "Petrovic", "Garcia", "Smith", "Ivanov", "Chen", "Silva", "Jovanovic",
      "Kovacevic" }
JOURNAL_TITLES ==
    { "AI Review", "Information Systems", "Data Science Journal",
      "Computing Advances" }
EVENT_NAMES ==
    { "AIConf 2025", "Open Science Summit", "Quantum Symposium",
      "Cloud Expo Europe" }
GEO_NAMES == { "Serbia", "Germany", "USA", "France", "Spain" }
GEO_CODES ==
    [n \in GEO_NAMES |->
        CASE n = "Serbia" -> "RS" [] n = "Germany" -> "DE" [] n = "USA" -> "US"
          [] n = "France" -> "FR" [] n = "Spain" -> "ES"]
GRANT_NAMES ==
    { "HorizonEurope Project X", "National Science Grant Y",
      "AI Innovation Programme", "Climate Research Initiative" }
INVESTIGATOR_ROLES ==
    { "Principal Investigator", "Co-Principal Investigator", "Investigator" }
ADVISORY_TYPES ==
    { "Advising", "Faculty Mentoring", "Graduate Advising",
      "Postdoc or Fellow Advising", "Undergraduate Advising" }
CITATION_SOURCES == { "OpenAlex", "Web of Science", "Scopus" }
POSITION_TYPES == { "faculty position", "non-academic position" }
POSITION_TITLES == { "full professor", "librarian", "developer" }
ORG_TYPES == { "Faculty", "Research Center", "Research Institute", "College", "NGO" }
ORG_NAMES ==
    { "University of Belgrade", "Faculty of Science", "Institute of AI",
      "Research Center VINCA", "Open Data Lab" }

\* str.upper() of one character
UpperChar(c) ==
    CASE c = "a" -> "A" [] c = "b" -> "B" [] c = "c" -> "C"
      [] c = "d" -> "D" [] c = "e" -> "E" [] c = "f" -> "F"
      [] c = "g" -> "G" [] c = "h" -> "H" [] c = "i" -> "I"
      [] c = "j" -> "J" [] c = "k" -> "K" [] c = "l" -> "L"
      [] c = "m" -> "M" [] c = "n" -> "N" [] c = "o" -> "O"
      [] c = "p" -> "P" [] c = "q" -> "Q" [] c = "r" -> "R"
      [] c = "s" -> "S" [] c = "t" -> "T" [] c = "u" -> "U"
      [] c = "v" -> "V" [] c = "w" -> "W" [] c = "x" -> "X"
      [] c = "y" -> "Y" [] c = "z" -> "Z"
      [] OTHER -> c

RECURSIVE UpperFrom(_, _)
UpperFrom(str, i) ==
    IF i > Len(str) THEN "" ELSE UpperChar(Ch(str, i)) \o UpperFrom(str, i + 1)

RECURSIVE Initials(_, _)
Initials(parts, i) ==
    IF i > Len(parts) THEN ""
    ELSE (IF parts[i] # "" THEN UpperChar(Ch(parts[i], 1)) ELSE "")
           \o Initials(parts, i + 1)

Prefix(str, n) == SubSeq(str, 1, IF Len(str) < n THEN Len(str) ELSE n)

make_abbrev(name) ==
    LET parts == SplitRuns(name, 1, "", WHITESPACE \o "_-")
    IN  IF Len(parts) = 1
        THEN UpperFrom(Prefix(name, 4), 1)
        ELSE Prefix(Initials(parts, 1), 6)

(***************************************************************************)
(* Cell values: a Python int, float or str, None, or the result of a      *)
(* generator whose digits no operation of the script reads.                *)
(***************************************************************************)
IntVal(n) == [int |-> n]
StrVal(str) == [str |-> str]
FloatVal(n) == [float |-> n]
GenVal(g) == [gen |-> g]
NoneVal == [none |-> TRUE]

IsInt(v) == "int" \in DOMAIN v

\* str(v)
StrOf(v) ==
    IF IsInt(v) THEN Str(v.int)
    ELSE IF "str" \in DOMAIN v THEN v.str
    ELSE IF "none" \in DOMAIN v THEN "None"
    ELSE "?"

Max(a, b) == IF a >= b THEN a ELSE b
Min(a, b) == IF a <= b THEN a ELSE b

\* pick_pk(ent): the values random.choice / random.randint can return
pick_pk(ent) ==
    IF PkGet(ent) # <<>> THEN Range(PkGet(ent)) ELSE 1..Max(1, rows)

\* pick_pk_for_ref(pk_values, ref, rows)
pick_pk_for_ref(ref) ==
    LET hits == { k \in 1..Len(entities) :
                    /\ Lower(entities[k].name) = Lower(ref)
                    /\ pk_values[k] # <<>> }
    IN  IF hits # {}
        THEN Range(pk_values[CHOOSE k \in hits : \A j \in hits : k <= j])
        ELSE 1..Max(1, rows)

\* synth_generic_value(col_lower)
synth_generic_value(col_lower) ==
    IF Contains(col_lower, "name")
    THEN { StrVal(v) : v \in ORG_NAMES \cup FIRSTNAMES }
    ELSE IF Contains(col_lower, "title")
    THEN { StrVal(v) : v \in DOC_TITLES }
    ELSE IF Contains(col_lower, "doi") THEN { GenVal("doi") }
    ELSE IF Contains(col_lower, "issn") THEN { GenVal("issn") }
    ELSE IF Contains(col_lower, "isbn") THEN { GenVal("isbn") }
    ELSE IF \/ Contains(col_lower, "page") \/ Contains(col_lower, "volume")
            \/ Contains(col_lower, "issue")
    THEN { IntVal(n) : n \in 1..200 }
    ELSE { StrVal(col_lower \o "_" \o Str(n)) : n \in 1..100 }

(***************************************************************************)
(* generate_csvs: the rule a column of an entity is filled by, the first   *)
(* whose condition holds                                                   *)
(***************************************************************************)
RuleOf(ent, cols, cl) ==
    IF cl = Lower(ent) \o "_id" /\ PkGet(ent) # <<>> THEN "pk"
    ELSE IF ent = "Authorship" /\ cl = "display_author_name"
    THEN "display_author_name"
    ELSE IF ent = "Citations" /\ cl \in {"source", "citation_source"}
    THEN "citation_source"
    ELSE IF ent = "Citations" /\ cl \in {"number", "citation_number"}
    THEN "citation_number"
    ELSE IF ent = "Document" /\ cl = "page_start" THEN "page_start"
    ELSE IF ent = "Document" /\ cl = "page_end" THEN "page_end"
    ELSE IF /\ ent = "Advisorship"
            /\ SeqContains(LoweredCols(cols), "advisor_person_id")
            /\ cl = "advisor_person_id"
    THEN "advisor"
    ELSE IF /\ ent = "Advisorship"
            /\ SeqContains(LoweredCols(cols), "student_person_id")
            /\ cl = "student_person_id"
    THEN "student"
    ELSE IF ent = "Advisorship" /\ cl = "advising_relationship_type"
    THEN "advising_relationship_type"
    ELSE IF ent = "Event" /\ cl = "name" THEN "event_name"
    ELSE IF ent = "Geolocation" /\ cl = "name" THEN "geo_name"
    ELSE IF ent = "Geolocation" /\ cl = "code" THEN "geo_code"
    ELSE IF ent = "Grant" /\ cl = "name" THEN "grant_name"
    ELSE IF ent = "Grant" /\ cl = "total_award_amount" THEN "grant_amount"
    ELSE IF /\ \/ Lower(ent) = "investigatorship"
               \/ ent = "Contributorship"
                    /\ cl \in {"roletype", Lower("roletype"), Lower("roleType")}
            /\ Contains(cl, "role")
    THEN "role"
    ELSE IF ent = "Journal" /\ cl = "title" THEN "journal_title"
    ELSE IF ent = "Journal" /\ cl = "abbreviation" THEN "journal_abbreviation"
    ELSE IF ent = "Journal" /\ cl = "issn" THEN "journal_issn"
    ELSE IF ent = "OrganisationUnit" /\ cl = "abbreviation"
    THEN "org_abbreviation"
    ELSE IF ent = "OrganisationUnit" /\ cl = "ror" THEN "org_ror"
    ELSE IF ent = "OrganisationUnit" /\ cl = "type" THEN "org_type"
    ELSE IF ent = "Person" /\ cl = "other_name" THEN "person_other_name"
    ELSE IF ent = "Person" /\ cl = "preferred_title"
    THEN "person_preferred_title"
    ELSE IF ent = "Person" /\ cl = "orcid" THEN "person_orcid"
    ELSE IF ent = "Person" /\ cl = "type" THEN "person_type"
    ELSE IF ent = "Position" /\ cl = "type" THEN "position_type"
    ELSE IF ent = "Position" /\ cl = "title" THEN "position_title"
    ELSE IF cl \in {"publication_year", "start_year", "end_year"} THEN "year"
    ELSE IF EndsWith(cl, "_id") THEN "fk"
    ELSE "generic"

\* the values the hand-coded rule can append
RuleValues(rule) ==
    CASE rule = "display_author_name" ->
            { StrVal(f \o " " \o l) : f \in FIRSTNAMES, l \in LASTNAMES }
      [] rule = "citation_source" -> { StrVal(v) : v \in CITATION_SOURCES }
      [] rule = "citation_number" -> { IntVal(n) : n \in 1..500 }
      [] rule = "advising_relationship_type" ->
            { StrVal(v) : v \in ADVISORY_TYPES }
      [] rule = "event_name" -> { StrVal(v) : v \in EVENT_NAMES }
      [] rule = "geo_name" -> { StrVal(v) : v \in GEO_NAMES }
      [] rule = "geo_code" -> { StrVal(GEO_CODES[n]) : n \in GEO_NAMES }
      [] rule = "grant_name" -> { StrVal(v) : v \in GRANT_NAMES }
      [] rule = "grant_amount" -> { FloatVal(h * 10000) : h \in 50..500 }
      [] rule = "role" -> { StrVal(v) : v \in INVESTIGATOR_ROLES }
      [] rule = "journal_title" -> { StrVal(v) : v \in JOURNAL_TITLES }
      [] rule = "journal_abbreviation" ->
            { StrVal(make_abbrev(t)) : t \in JOURNAL_TITLES }
      [] rule = "journal_issn" -> { GenVal("issn") }
      [] rule = "org_abbreviation" ->
            { StrVal(make_abbrev(t)) : t \in ORG_NAMES }
      [] rule = "org_ror" -> { GenVal("ror") }
      [] rule = "org_type" -> { StrVal(v) : v \in ORG_TYPES }
      [] rule = "person_other_name" -> { StrVal(v) : v \in FIRSTNAMES }
      [] rule = "person_orcid" -> { GenVal("orcid") }
      [] rule = "position_type" -> { StrVal(v) : v \in POSITION_TYPES }
      [] rule = "position_title" -> { StrVal(v) : v \in POSITION_TITLES }
      [] OTHER -> {}

\* PREFERRED_TITLES and PERSON_TYPES are names the module never binds
UndefinedPoolRules == { "person_preferred_title", "person_type" }

(***************************************************************************)
(* generate_csvs: the entity CSVs                                          *)
(***************************************************************************)
ent == entities[ei].name
cols == entities[ei].cols
cl == Lower(cols[ci])
rule == RuleOf(ent, cols, cl)

EntityFile(n) == Lower(n) \o ".csv"

Filling == pc = "row" /\ idx < rows /\ ci <= Len(cols)

cellFrame == <<pc, rows, parseVars, diagVars, ei, idx, s, attempts, genVars>>

\* row.append(v); continue
AppendCell(v) == row' = Append(row, v) /\ ci' = ci + 1

\* with open(fname, 'w'): writer.writerow(cols)
OpenEntity ==
    /\ pc = "entity" /\ ei <= Len(entities)
    /\ files' = (EntityFile(ent) :>
                    [header |-> cols, nrows |-> 0, pairs |-> <<>>]) @@ files
    /\ idx' = 0
    /\ ci' = 1
    /\ row' = <<>>
    /\ pc' = "row"
    /\ UNCHANGED <<rows, parseVars, diagVars, ei, s, attempts,
                   out_dir, assoc, ri, pk_values, persons, pairs, fault>>

\* deterministic entity PK if present
CellPrimaryKey ==
    /\ Filling /\ rule = "pk"
    /\ AppendCell(IntVal(PkGet(ent)[(idx % Len(PkGet(ent))) + 1]))
    /\ UNCHANGED cellFrame

\* a special per-column rule drawing from a pool
CellPool ==
    /\ Filling /\ RuleValues(rule) # {}
    /\ \E v \in RuleValues(rule) : AppendCell(v)
    /\ UNCHANGED cellFrame

\* random.choice(PREFERRED_TITLES), random.choice(PERSON_TYPES): NameError
CellUndefinedPool ==
    /\ Filling /\ rule \in UndefinedPoolRules
    /\ pc' = "fault"
    /\ fault' = "NameError"
    /\ UNCHANGED <<rows, parseVars, diagVars, rowVars,
                   out_dir, assoc, ri, pk_values, persons, files, pairs>>

\* Document.page_start
CellPageStart ==
    /\ Filling /\ rule = "page_start"
    /\ \E pstart \in 1..200 : AppendCell(IntVal(pstart))
    /\ UNCHANGED cellFrame

\* ps_idx < len(row), for the 0-based index of 'page_start' in the lowered cols
PageStartWritten ==
    /\ SeqContains(LoweredCols(cols), "page_start")
    /\ IndexOf(LoweredCols(cols), "page_start") <= Len(row)

\* variant: randint(start_val, start_val + 30)
PageEndValuesFromStart ==
    IF PageStartWritten
    THEN LET start_val == row[IndexOf(LoweredCols(cols), "page_start")].int
         IN  { start_val + d : d \in 0..30 }
    ELSE 2..400

PageEndValues ==
    IF PageStartWritten
    THEN LET start_val == row[IndexOf(LoweredCols(cols), "page_start")].int
         IN  { start_val + d : d \in 1..30 }
    ELSE 2..400

\* Document.page_end
CellPageEnd ==
    /\ Filling /\ rule = "page_end"
    /\ \E end_val \in PageEndValues : AppendCell(IntVal(end_val))
    /\ UNCHANGED cellFrame

\* Advisorship.advisor_person_id
CellAdvisor ==
    /\ Filling /\ rule = "advisor"
    /\ \E pr \in pick_pk("Person") : AppendCell(IntVal(pr))
    /\ UNCHANGED cellFrame

\* the advisor of this row if its column is already written, else None
advisor_val ==
    IF /\ SeqContains(LoweredCols(cols), "advisor_person_id")
       /\ IndexOf(LoweredCols(cols), "advisor_person_id") <= Len(row)
    THEN row[IndexOf(LoweredCols(cols), "advisor_person_id")]
    ELSE NoneVal

\* variant: attempts <= 10
ResampleConditionOneMore ==
    /\ advisor_val # NoneVal
    /\ Str(s) = StrOf(advisor_val)
    /\ attempts <= 10

\* advisor_val is not None and str(s) == str(advisor_val) and attempts < 10
ResampleCondition ==
    /\ advisor_val # NoneVal
    /\ Str(s) = StrOf(advisor_val)
    /\ attempts < 10

studentFrame == <<rows, parseVars, diagVars, ei, idx, genVars>>

\* Advisorship.student_person_id: s = pick_pk('Person'); attempts = 0
StudentPick ==
    /\ Filling /\ rule = "student"
    /\ s' \in pick_pk("Person")
    /\ attempts' = 0
    /\ pc' = "student"
    /\ UNCHANGED <<ci, row, studentFrame>>

\* one pass of the while loop
StudentResample ==
    /\ pc = "student" /\ ResampleCondition
    /\ s' \in pick_pk("Person")
    /\ attempts' = attempts + 1
    /\ UNCHANGED <<pc, ci, row, studentFrame>>

\* row.append(s) after the loop
StudentAppend ==
    /\ pc = "student" /\ ~ResampleCondition
    /\ AppendCell(IntVal(s))
    /\ pc' = "row"
    /\ UNCHANGED <<s, attempts, studentFrame>>

\* publication_year, start_year, end_year
CellYear ==
    /\ Filling /\ rule = "year"
    /\ \E y \in 1990..2025 : AppendCell(IntVal(y))
    /\ UNCHANGED cellFrame

\* general FK columns (xxx_id)
CellForeignKey ==
    /\ Filling /\ rule = "fk"
    /\ \E val \in pick_pk_for_ref(SubSeq(cl, 1, Len(cl) - 3)) :
          AppendCell(IntVal(val))
    /\ UNCHANGED cellFrame

\* default synthesized value
CellGeneric ==
    /\ Filling
    /\ rule = "generic"
    /\ \E v \in synth_generic_value(cl) : AppendCell(v)
    /\ UNCHANGED cellFrame

\* writer.writerow(row)
WriteRow ==
    /\ pc = "row" /\ idx < rows /\ ci > Len(cols)
    /\ files' = [files EXCEPT ![EntityFile(ent)].nrows = @ + 1]
    /\ idx' = idx + 1
    /\ ci' = 1
    /\ row' = <<>>
    /\ UNCHANGED <<pc, rows, parseVars, diagVars, ei, s, attempts,
                   out_dir, assoc, ri, pk_values, persons, pairs, fault>>

\* the file of the entity is closed after its last row
CloseEntity ==
    /\ pc = "row" /\ idx >= rows
    /\ ei' = ei + 1
    /\ pc' = "entity"
    /\ UNCHANGED <<rows, parseVars, diagVars, idx, ci, row, s, attempts, genVars>>

NextEntities ==
    \/ OpenEntity
    \/ CellPrimaryKey
    \/ CellPool
    \/ CellUndefinedPool
    \/ CellPageStart
    \/ CellPageEnd
    \/ CellAdvisor
    \/ StudentPick
    \/ StudentResample
    \/ StudentAppend
    \/ CellYear
    \/ CellForeignKey
    \/ CellGeneric
    \/ WriteRow
    \/ CloseEntity

(***************************************************************************)
(* generate_csvs: the M:N join tables                                      *)
(***************************************************************************)
\* pk_values.get(n) or [1]
KeyPool(n) == IF PkGet(n) # <<>> THEN PkGet(n) ELSE <<1>>

JoinFile(r) == Lower(r.left) \o "_" \o Lower(r.right) \o ".csv"

\* the coverage loop: min(len) pairs in lock-step
CoveragePairs(left_vals, right_vals) ==
    [i \in 1..Min(Len(left_vals), Len(right_vals)) |->
        << left_vals[((i - 1) % Len(left_vals)) + 1],
           right_vals[((i - 1) % Len(right_vals)) + 1] >>]

joinFrame == <<rows, parseVars, diagVars, rowVars,
               out_dir, assoc, pk_values, persons, fault>>

\* the entity loop is over
EntitiesDone ==
    /\ pc = "entity" /\ ei > Len(entities)
    /\ ri' = 1
    /\ pc' = "join"
    /\ UNCHANGED <<files, pairs, joinFrame>>

\* an edge that is not many-to-many has no join table
JoinSkip ==
    /\ pc = "join" /\ ri <= Len(relations) /\ ~is_mn(edge.connector)
    /\ ri' = ri + 1
    /\ UNCHANGED <<pc, files, pairs, joinFrame>>

\* open the join file, write its header, build the coverage pairs
JoinOpen ==
    /\ pc = "join" /\ ri <= Len(relations) /\ is_mn(edge.connector)
    /\ files' = (JoinFile(edge) :>
                    [header |-> << Lower(edge.left) \o "_id",
                                   Lower(edge.right) \o "_id" >>,
                     nrows |-> 0, pairs |-> <<>>]) @@ files
    /\ pairs' = CoveragePairs(KeyPool(edge.left), KeyPool(edge.right))
    /\ pc' = "pad"
    /\ UNCHANGED <<ri, joinFrame>>

\* while len(pairs) < rows: one random pair
JoinPad ==
    /\ pc = "pad" /\ Len(pairs) < rows
    /\ \E a \in Range(KeyPool(edge.left)), b \in Range(KeyPool(edge.right)) :
          pairs' = Append(pairs, <<a, b>>)
    /\ UNCHANGED <<pc, ri, files, joinFrame>>

\* for a,b in pairs[:rows]: writer.writerow([a,b])
JoinWrite ==
    /\ pc = "pad" /\ Len(pairs) >= rows
    /\ files' = [files EXCEPT ![JoinFile(edge)] =
                    [@ EXCEPT !.nrows = rows, !.pairs = SubSeq(pairs, 1, rows)]]
    /\ ri' = ri + 1
    /\ pc' = "join"
    /\ UNCHANGED <<pairs, joinFrame>>

\* print("Done. CSVs in:", out_dir)
Done ==
    /\ pc = "join" /\ ri > Len(relations)
    /\ pc' = "done"
    /\ UNCHANGED <<ri, files, pairs, joinFrame>>

NextJoin ==
    \/ EntitiesDone
    \/ JoinSkip
    \/ JoinOpen
    \/ JoinPad
    \/ JoinWrite
    \/ Done

Next == NextParse \/ NextAugment \/ NextEntities \/ NextJoin

(***************************************************************************)
(* Diagram files read by the parser alone: every file of at most MaxLines  *)
(* lines over ParseLines.                                                  *)
(***************************************************************************)
ParseLines ==
    { "entity A {\n", "  x : int\n", "}\n", "A ||--o{ B : has\n",
      "A -- B\n", "--\n", "' note\n", "entity  B\n", " -- : x\n" }

RECURSIVE SeqsUpTo(_, _)
SeqsUpTo(S, n) ==
    IF n = 0 THEN { <<>> }
    ELSE LET shorter == SeqsUpTo(S, n - 1)
         IN  shorter \cup { Append(q, x) : q \in shorter, x \in S }

NoFiles == [f \in {} |-> 0]

\* the state before parse_puml reads the first line of the file
Start(f, n) ==
    /\ pc = "parse"
    /\ file = f
    /\ rows = n
    /\ current = ""
    /\ entities = <<>>
    /\ relations = <<>>
    /\ out_dir = FALSE
    /\ assoc = {}
    /\ ri = 0
    /\ pk_values = <<>>
    /\ persons = {}
    /\ ei = 0
    /\ idx = 0
    /\ ci = 0
    /\ row = <<>>
    /\ s = 0
    /\ attempts = 0
    /\ files = NoFiles
    /\ pairs = <<>>
    /\ fault = ""

InitParse == \E f \in SeqsUpTo(ParseLines, MaxLines) : Start(f, 0)

SpecParse == InitParse /\ [][NextParse]_vars

(***************************************************************************)
(* Diagram files of whole runs.  A diagram is a list of entity blocks and  *)
(* a list of edges, written out as the lines of a PlantUML file.           *)
(***************************************************************************)
Block(e) ==
    <<"entity " \o e.name \o " {\n">>
      \o [i \in 1..Len(e.cols) |-> "  " \o e.cols[i] \o " : str\n"]
      \o <<"}\n">>

RECURSIVE Blocks(_)
Blocks(ents) ==
    IF ents = <<>> THEN <<>> ELSE Block(Head(ents)) \o Blocks(Tail(ents))

EdgeLine(r) == r.left \o " " \o r.connector \o " " \o r.right \o "\n"

Render(d) == Blocks(d.ents) \o [i \in 1..Len(d.edges) |-> EdgeLine(d.edges[i])]

\* the same between @startuml and @enduml, after a comment and a blank line
Wrapped(d) == <<"@startuml\n", "' join tables\n", "\n">> \o Render(d) \o <<"@enduml\n">>

Entity(n, c) == [name |-> n, cols |-> c]
Edge(l, c, r) == [left |-> l, connector |-> c, right |-> r]
Diagram(e, r) == [ents |-> e, edges |-> r]

\* all lists of one or two elements of S
OneOrTwo(S) == { <<x>> : x \in S } \cup { <<x, y>> : x \in S, y \in S }

\* FK inference: two declared entities, Journal undeclared, up to two edges
AugEdges ==
    { Edge(l, c, r) : l \in {"Document", "Person", "Journal"},
                      c \in {"||--o{", "|o--o{", "--", "}o--o{"},
                      r \in {"Document", "Person", "Journal"} }

AugDiagrams ==
    { Diagram(<< Entity("Document", <<"document_id">>),
                 Entity("Person", <<"person_id", "Document_ID">>) >>, r) :
        r \in {<<>>} \cup OneOrTwo(AugEdges) }

\* identifier and foreign-key columns
IdDiagrams ==
    LET referenced == { Entity("Role", c) :
                          c \in { <<"role_id">>, <<"Role_ID">>, <<"title">> } }
        referencing == { Entity(n, c) :
                          n \in {"Membership", "Investigatorship", "role"},
                          c \in OneOrTwo({"role_id", "membership_id",
                                          "investigatorship_id", "unit_id"}) }
    IN  { Diagram(<<a, b>>, <<>>) : a \in referenced, b \in referencing }
          \cup { Diagram(<<b, a>>, <<>>) : a \in referenced, b \in referencing }

\* one column of every hand-coded rule and of every generic fallback
RuleColumns ==
    { <<"Authorship", "display_author_name">>,
      <<"Citations", "source">>, <<"Citations", "citation_number">>,
      <<"Advisorship", "advising_relationship_type">>,
      <<"Event", "name">>, <<"Geolocation", "name">>, <<"Geolocation", "code">>,
      <<"Grant", "name">>, <<"Grant", "total_award_amount">>,
      <<"Contributorship", "roleType">>, <<"Investigatorship", "role_type">>,
      <<"Investigatorship", "title">>,
      <<"Journal", "title">>, <<"Journal", "abbreviation">>, <<"Journal", "issn">>,
      <<"OrganisationUnit", "abbreviation">>, <<"OrganisationUnit", "ror">>,
      <<"OrganisationUnit", "type">>,
      <<"Person", "other_name">>, <<"Person", "preferred_title">>,
      <<"Person", "orcid">>, <<"Person", "type">>, <<"Person", "person_id">>,
      <<"Position", "type">>, <<"Position", "title">>,
      <<"Document", "publication_year">>, <<"Document", "title">>,
      <<"Document", "doi">>, <<"Document", "isbn">>, <<"Document", "volume">>,
      <<"Document", "abstract">>, <<"Document", "full_name">> }

RuleDiagrams ==
    { Diagram(<<Entity(p[1], <<p[2]>>)>>, <<>>) : p \in RuleColumns }
      \cup { Diagram(<< Entity("Person", <<"person_id", "other_name", "orcid">>),
                        Entity("Authorship", <<"person_id", "display_author_name">>) >>,
                     <<>>) }

\* Document page ranges
DocDiagrams ==
    { Diagram(<<Entity("Document", c)>>, <<>>) :
        c \in { <<"page_start">>, <<"page_end">>,
                <<"page_start", "page_end">>, <<"page_end", "page_start">>,
                <<"Page_Start", "Page_End">>,
                <<"document_id", "page_start", "page_end">> } }

\* Advisorship with and without a Person entity
AdvDiagrams ==
    LET advisorship == { Entity("Advisorship", c) :
            c \in { <<"advisor_person_id", "student_person_id">>,
                    <<"student_person_id", "advisor_person_id">>,
                    <<"student_person_id">>,
                    <<"Advisor_Person_ID", "advising_relationship_type",
                      "Student_Person_ID">> } }
        person == { <<>>, <<Entity("Person", <<"person_id">>)>>,
                    <<Entity("Person", <<"orcid">>)>> }
    IN  { Diagram(p \o <<a>>, <<>>) : p \in person, a \in advisorship }

\* many-to-many edges between A and B, B declared or not, with or without keys
JoinDiagrams ==
    LET as == { Entity("A", c) : c \in { <<"a_id">>, <<"name">> } }
        bs == { <<>> } \cup { <<Entity("B", c)>> : c \in { <<"b_id">>, <<"title">> } }
        mn == { Edge(l, c, r) : l \in {"A", "B"}, c \in {"}o--o{", "}|--|{"},
                                r \in {"A", "B"} }
    IN  { Diagram(<<a>> \o b, <<e>>) : a \in as, b \in bs, e \in mn }

Files ==
    { Render(d) : d \in AugDiagrams \cup IdDiagrams \cup RuleDiagrams
                          \cup DocDiagrams \cup AdvDiagrams }
      \cup { Wrapped(d) : d \in JoinDiagrams }

\* the end-to-end scenario: Person, Document, Document ||--o{ Person, rows = 3
ScenarioFile ==
    << "entity Person {\n", "  person_id : int\n", "}\n",
       "entity Document {\n", "  document_id : int\n", "}\n",
       "Document ||--o{ Person\n" >>

Init ==
    \/ \E f \in Files, n \in 0..MaxRows : Start(f, n)
    \/ Start(ScenarioFile, 3)

Spec == Init /\ [][Next]_vars


(***************************************************************************)
(* Properties                                                              *)
(***************************************************************************)
\* the row of the entity being written is complete and about to be written
RowComplete == pc = "row" /\ idx < rows /\ ci > Len(cols)

\* the primary-key sequences have been computed
KeysKnown == pc \in {"entity", "row", "student", "join", "pad", "done"}

\* C1: an entity with a detected identifier column (<entityname>_id without
\* regard to case, else the first column ending in _id) has the primary-key
\* sequence 1..rows, and row i of its CSV holds i+1 in the identifier column.
C1_IdentifierColumnHoldsSequence ==
    /\ KeysKnown =>
          \A k \in 1..Len(entities) :
              EntIdCol(entities[k].name, entities[k].cols) # ""
                  => pk_values[k] = [i \in 1..rows |-> i]
    /\ RowComplete /\ EntIdCol(ent, cols) # "" =>
          \A j \in 1..Len(cols) :
              cols[j] = EntIdCol(ent, cols) => row[j] = IntVal(idx + 1)

\* some entity named ref, without regard to case, has a non-empty sequence
RefHasKeys(ref) ==
    \E k \in 1..Len(entities) :
        Lower(entities[k].name) = Lower(ref) /\ pk_values[k] # <<>>

\* C2: every value written to a column <ref>_id, where an entity named ref
\* (case-insensitively) has a non-empty primary-key sequence, lies in 1..rows,
\* whichever rule filled the column.
C2_ForeignKeysWithinSequence ==
    pc = "row" =>
        \A j \in 1..Len(row) :
            LET c == Lower(cols[j])
            IN  EndsWith(c, "_id") /\ RefHasKeys(SubSeq(c, 1, Len(c) - 3))
                    => IsInt(row[j]) /\ row[j].int \in 1..rows

\* the many-to-many edge whose join table has just been written
JoinWritten ==
    /\ pc \in {"join", "done"} /\ ri > 1 /\ ri <= Len(relations) + 1
    /\ is_mn(relations[ri - 1].connector)

\* C3: the join CSV of a many-to-many edge has exactly rows data rows, and
\* when rows >= min(|leftKeys|, |rightKeys|) every key of either endpoint's
\* primary-key sequence is in some pair, left keys first, right keys second.
C3_JoinCoversEveryKey ==
    JoinWritten =>
        LET r == relations[ri - 1]
            f == files[JoinFile(r)]
        IN  /\ f.nrows = rows
            /\ Len(f.pairs) = rows
            /\ rows >= Min(Len(KeyPool(r.left)), Len(KeyPool(r.right))) =>
                  /\ \A a \in Range(PkGet(r.left)) :
                        \E i \in 1..Len(f.pairs) : f.pairs[i][1] = a
                  /\ \A b \in Range(PkGet(r.right)) :
                        \E i \in 1..Len(f.pairs) : f.pairs[i][2] = b

\* number of times n is an endpoint of an edge
RECURSIVE EndpointCount(_, _)
EndpointCount(rels, n) ==
    IF rels = <<>> THEN 0
    ELSE (IF Head(rels).left = n THEN 1 ELSE 0)
           + (IF Head(rels).right = n THEN 1 ELSE 0)
           + EndpointCount(Tail(rels), n)

\* the entities with a declared attribute and degree >= 2, as parsed
AssociationEntities ==
    { entities[k].name : k \in { j \in 1..Len(entities) :
          entities[j].cols # <<>>
            /\ EndpointCount(relations, entities[j].name) >= 2 } }

\* C4: the FK-augmentation step leaves the column list of every association
\* entity as parsed, and an edge with an association entity at either end
\* appends no column to any entity.
C4_AssociationEntitiesKeepColumns ==
    [][ /\ pc = "generate" => assoc' = AssociationEntities
        /\ pc = "augment" =>
              /\ \A k \in 1..Len(entities) :
                    entities[k].name \in assoc => entities'[k] = entities[k]
              /\ ri <= Len(relations)
                   /\ (edge.left \in assoc \/ edge.right \in assoc)
                     => entities' = entities /\ pc' = "augment" ]_vars

\* augmentation is over and skipped a one-to-many edge out of an association
\* entity that would otherwise have given the other endpoint a column
C4_Witness ==
    /\ pc = "entity"
    /\ \E i \in 1..Len(relations) :
          /\ relations[i].left \in assoc
          /\ Contains(relations[i].connector, "||--o{")
          /\ HasEntity(entities, relations[i].right)
          /\ ~SeqContains(ColsOf(entities, relations[i].right),
                          Lower(relations[i].left) \o "_id")

\* the first page_start column, if it comes before column j
PageStartBefore(j) ==
    { p \in 1..(j - 1) : /\ Lower(cols[p]) = "page_start"
                         /\ \A q \in 1..(p - 1) : Lower(cols[q]) # "page_start" }

\* C5: in a row of Document a page_end that comes after page_start exceeds
\* the page_start of the row by 1 to 30; a page_end that page_start does not
\* precede is some value of 2..400.
C5_PageEndAfterPageStart ==
    pc = "row" /\ ent = "Document" =>
        \A j \in 1..Len(row) :
            Lower(cols[j]) = "page_end" =>
                /\ IsInt(row[j])
                /\ \A p \in PageStartBefore(j) :
                      /\ row[j].int > row[p].int
                      /\ row[j].int - row[p].int \in 1..30
                /\ PageStartBefore(j) = {} => row[j].int \in 2..400

\* a complete Document row with page_start before page_end
C5_Witness ==
    /\ RowComplete /\ ent = "Document"
    /\ \E j \in 1..Len(row) :
          Lower(cols[j]) = "page_end" /\ PageStartBefore(j) # {}

\* C6: a run writes for every entity a CSV with the final column list as the
\* header and exactly rows data rows of one value per column, and every join
\* table has rows data rows; the run completes for every column the
\* synthesizer has a rule for, Person.preferred_title and Person.type
\* included.
C6_EveryFileComplete ==
    /\ fault # "NameError"
    /\ RowComplete => Len(row) = Len(cols)
    /\ pc = "done" =>
          /\ \A k \in 1..Len(entities) :
                LET f == EntityFile(entities[k].name)
                IN  /\ f \in DOMAIN files
                    /\ files[f].header = entities[k].cols
                    /\ files[f].nrows = rows
          /\ \A i \in 1..Len(relations) :
                is_mn(relations[i].connector) =>
                    /\ JoinFile(relations[i]) \in DOMAIN files
                    /\ files[JoinFile(relations[i])].nrows = rows

\* the edge gets an FK column: not many-to-many, no association endpoint
Eligible(r) ==
    /\ ~(Contains(r.connector, "{") /\ Contains(r.connector, "}"))
    /\ r.left \notin AssociationEntities /\ r.right \notin AssociationEntities

\* the entity the rules of C7 give the column to, and the other endpoint
Receiver(r) ==
    IF Contains(r.connector, "|o--o{") THEN r.left
    ELSE IF Contains(r.connector, "||--o{") THEN r.right
    ELSE IF r.left = "Document" /\ r.right \in {"Journal", "Event"} THEN r.left
    ELSE r.right

Referenced(r) == IF Receiver(r) = r.left THEN r.right ELSE r.left

\* entities after col is appended to the list of n unless it is there
WithColumn(ents, n, col) ==
    [k \in 1..Len(ents) |->
        IF ents[k].name = n /\ \A j \in 1..Len(ents[k].cols) : ents[k].cols[j] # col
        THEN [name |-> n, cols |-> ents[k].cols \o <<col>>]
        ELSE ents[k]]

\* the edge is placed by the first matching rule
PlacedByRule(r) ==
    /\ pc' = "augment"
    /\ HasEntity(entities, Receiver(r))
    /\ entities' = WithColumn(entities, Receiver(r), Lower(Referenced(r)) \o "_id")

InScenario ==
    /\ rows = 3 /\ Len(entities) = 2
    /\ entities[1].name = "Person" /\ entities[1].cols[1] = "person_id"
    /\ entities[2] = Entity("Document", <<"document_id">>)
    /\ relations = <<Edge("Document", "||--o{", "Person")>>

ScenarioResult ==
    /\ KeysKnown /\ InScenario =>
          entities[1].cols = <<"person_id", "document_id">>
    /\ pc = "row" /\ InScenario /\ ent = "Person" /\ Len(row) >= 2 =>
          IsInt(row[2]) /\ row[2].int \in {1, 2, 3}
    /\ pc = "done" /\ InScenario =>
          /\ files["person.csv"].header = <<"person_id", "document_id">>
          /\ files["person.csv"].nrows = 3

\* C7 as stated: every edge that is not many-to-many and has no association
\* endpoint appends the column of the first matching rule to its receiver.
C7_EveryEligibleEdgePlaced ==
    [][ pc = "augment" /\ ri <= Len(relations) /\ Eligible(edge)
            => PlacedByRule(edge) ]_vars

\* C7 amended: every such edge whose receiving entity is declared appends the
\* column of the first matching rule to its receiver, and the scenario
\* Document ||--o{ Person with rows = 3 gives person.csv the header
\* person_id,document_id with document_id values in {1,2,3}.
C7_DeclaredReceiverEdgePlaced ==
    [][ /\ pc = "augment" /\ ri <= Len(relations) /\ Eligible(edge)
           /\ HasEntity(entities, Receiver(edge))
              => PlacedByRule(edge)
        /\ ScenarioResult' ]_vars

\* the scenario has run to its end
C7_Witness == pc = "done" /\ InScenario

\* the student column of the Advisorship row being built, once written
StudentWritten ==
    { j \in 1..Len(row) : Lower(cols[j]) = "student_person_id" }

AdvisorWritten ==
    { j \in 1..Len(row) : Lower(cols[j]) = "advisor_person_id" }

\* C8: the resampling loop of Advisorship.student_person_id makes at most 10
\* resamples, each step of it either resamples or appends exactly one value
\* and leaves the loop; it resamples only while the advisor of the row is
\* written and equal to the student; with a single Person key the student
\* equals the advisor.
C8_ResamplingBounded ==
    [][ /\ attempts' \in 0..10
        /\ pc = "student" =>
              \/ /\ pc' = "student" /\ attempts' = attempts + 1
                 /\ row' = row
                 /\ AdvisorWritten # {}
                 /\ \A j \in AdvisorWritten : row[j] = IntVal(s)
              \/ /\ pc' = "row" /\ attempts' = attempts
                 /\ row' = Append(row, IntVal(s))
                 /\ attempts < 10 /\ AdvisorWritten # {}
                      => \E j \in AdvisorWritten : row[j] # IntVal(s)
        /\ pc' = "student" /\ AdvisorWritten' = {} => attempts' = 0
        /\ pc' = "row" /\ ent' = "Advisorship"
             /\ Cardinality(pick_pk("Person")') = 1 =>
                \A i \in StudentWritten', j \in AdvisorWritten' :
                    row'[i] = row'[j] ]_vars

\* the loop gave up after 10 resamples and wrote a student equal to the advisor
C8_Witness ==
    /\ pc = "row" /\ ent = "Advisorship" /\ attempts = 10
    /\ Cardinality(pick_pk("Person")) > 1
    /\ \E i \in StudentWritten, j \in AdvisorWritten : j < i /\ row[i] = row[j]

\* C9: a line with a double dash read while an entity block is open adds no
\* edge to the relationship list.
C9_NoEdgeInsideBlock ==
    [][ Reading /\ current # "" /\ Contains(line, "--")
            => relations' = relations ]_vars

\* C10: no entity's column list holds a column name twice, after parsing and
\* after FK augmentation.
C10_NoDuplicateColumns ==
    \A k \in 1..Len(entities) :
        \A i, j \in 1..Len(entities[k].cols) :
            i # j => entities[k].cols[i] # entities[k].cols[j]

\* the connector holds both braces
ManyToMany(r) == Contains(r.connector, "{") /\ Contains(r.connector, "}")

\* the FK loop is at an edge that is not many-to-many and whose receiving
\* endpoint is no declared entity
AtUndeclaredReceiver ==
    /\ pc = "augment" /\ ri <= Len(relations)
    /\ ~ManyToMany(edge) /\ ~HasEntity(entities, Receiver(edge))

\* the values a join table holds on the side of an undeclared endpoint are 1
PoolOfUndeclaredIsOne(r, ps) ==
    \A i \in 1..Len(ps) :
        /\ ~HasEntity(entities, r.left) => ps[i][1] = 1
        /\ ~HasEntity(entities, r.right) => ps[i][2] = 1

\* C11 as stated: every edge that is not many-to-many and whose FK-receiving
\* endpoint is undeclared ends the run with a fault during augmentation,
\* with the output directory created and no CSV written.
C11_UndeclaredReceiverFaults ==
    [][ AtUndeclaredReceiver
            => /\ pc' = "fault" /\ fault' = "KeyError"
               /\ out_dir' /\ files' = NoFiles ]_vars

\* C11 amended: such an edge ends the run with KeyError during augmentation,
\* directory created and no CSV written, unless one of its endpoints is an
\* association entity, in which case it is skipped; every other edge passes
\* augmentation without a fault, KeyError arises nowhere else, and the join
\* table of a many-to-many edge is written without a fault with the pool
\* [1] on the side of an undeclared endpoint.
C11_UndeclaredReceiverFaultsUnlessSkipped ==
    [][ /\ pc = "augment" /\ ri <= Len(relations) =>
              IF /\ AtUndeclaredReceiver
                 /\ edge.left \notin assoc /\ edge.right \notin assoc
              THEN /\ pc' = "fault" /\ fault' = "KeyError"
                   /\ out_dir' /\ files' = NoFiles /\ entities' = entities
              ELSE pc' = "augment" /\ fault' = "" /\ ri' = ri + 1
        /\ fault' = "KeyError" => pc = "augment" /\ ri <= Len(relations)
        /\ pc = "join" /\ ri <= Len(relations) /\ ManyToMany(edge) =>
              /\ pc' = "pad" /\ fault' = ""
              /\ JoinFile(edge) \in DOMAIN files'
        /\ pc' = "pad" => PoolOfUndeclaredIsOne(relations[ri'], pairs')
        /\ pc = "pad" =>
              /\ fault' = ""
              /\ pc' = "join" =>
                    /\ files'[JoinFile(edge)].nrows = rows
                    /\ PoolOfUndeclaredIsOne(edge, files'[JoinFile(edge)].pairs)
      ]_vars

\* the run has ended in augmentation at an edge whose receiving endpoint is
\* undeclared while its other endpoint is declared
C11_Witness ==
    /\ pc = "fault" /\ fault = "KeyError" /\ out_dir /\ files = NoFiles
    /\ ~HasEntity(entities, Receiver(relations[ri]))
    /\ HasEntity(entities, Referenced(relations[ri]))

====
